---- MODULE Spec2Model ----
(***************************************************************************)
(* SecureVault: the encrypted-vault persistence and key-management code.   *)
(*                                                                         *)
(* src/js/database.js holds several revisions of the database module one   *)
(* after the other.  The helpers modelled here are those of the first      *)
(* revision (lines 1-420: key derivation with the fixed salt, AES with a   *)
(* string passphrase, the merging saveToSecureStorage, the file based      *)
(* loadFromSecureStorage).  importDatabaseWithPassword is modelled in the  *)
(* first revision (lines 428-510) and in the multi-key revision (lines     *)
(* 2004-2131).  The session controller is the second revision of           *)
(* src/js/auth.js (lines 378-1165); the feature modules are the file       *)
(* manager (src/unnamed/part_001) and the photo manager (src/js/photos.js).*)
(*                                                                         *)
(* Cryptography is symbolic: PBKDF2 and SHA-256 are injective, and AES     *)
(* decryption under a passphrase other than the one used for encryption,  *)
(* or of a damaged ciphertext, yields bytes that fail the UTF-8 / JSON     *)
(* step of decryptData.  Timestamps are left out of documents and records. *)
(***************************************************************************)
EXTENDS Integers, Sequences, FiniteSets, TLC

\* ------------------------------------------------------------------ bounds
MaxId   == 2    \* ids per collection
MaxChar == 2    \* distinct non-blank password characters
MaxInFlight == 2  \* saveToSecureStorage calls awaiting IndexedDB at a time

\* --------------------------------------------------------------- passwords
\* A password is a sequence of character codes; SP is the blank.  B64 marks
\* a text that spells the Base64 output of deriveKeyFromPassword for the
\* one-character password that follows the mark.
SP  == 0
B64 == 9

Passwords == {<< >>} \cup {<<c>> : c \in 1..MaxChar} \cup {<<1, SP>>}

KeyTexts == {<<B64, 1>>}

AnyPassword == Passwords \cup KeyTexts

RECURSIVE TrimLeft(_)
TrimLeft(s) == IF s # << >> /\ Head(s) = SP THEN TrimLeft(Tail(s)) ELSE s

RECURSIVE TrimRight(_)
TrimRight(s) ==
  IF s # << >> /\ s[Len(s)] = SP THEN TrimRight(SubSeq(s, 1, Len(s) - 1)) ELSE s

\* String.prototype.trim
Trim(s) == TrimRight(TrimLeft(s))

\* -------------------------------------------------------------------- keys
Salts == {"s1", "s2"}

DefaultSalt == "SecureVaultSalt"

NoKey == [kdf |-> "none", pw |-> << >>, salt |-> ""]

\* A string used as AES passphrase.  A key text is the very string that
\* deriveKeyFromPassword returns for the password it spells.
PBKDF2(kdf, pw, salt) == [kdf |-> kdf, pw |-> pw, salt |-> salt]

deriveKeyFromPassword(password, salt) ==
  IF password = << >> THEN NoKey
  ELSE PBKDF2("pbkdf2-sha256-b64", Trim(password), DefaultSalt)

\* the password string itself as passphrase
RawKey(password) ==
  IF password = << >> THEN NoKey
  ELSE IF Len(password) = 2 /\ password[1] = B64
       THEN deriveKeyFromPassword(<<password[2]>>, DefaultSalt)
       ELSE [kdf |-> "raw", pw |-> password, salt |-> ""]

\* CryptoJS.PBKDF2(password, 'SecureVaultSalt', {keySize, iterations}).toString()
LegacyHexKey(password) == PBKDF2("pbkdf2-sha1-hex", password, DefaultSalt)

\* CryptoJS.SHA256(key).toString()
SHA256(key) == [sha256 |-> key]

\* ------------------------------------------------------------- credentials
NoAuth == [present |-> FALSE, salt |-> "", keyHash |-> SHA256(NoKey)]

AuthRecordKey(salt, keyHash) ==
  [present |-> TRUE, salt |-> salt, keyHash |-> keyHash.sha256]

AuthRecord(salt, keyHash) == [present |-> TRUE, salt |-> salt, keyHash |-> keyHash]

validatePasswordAny(password, authData) == password # << >> /\ authData.present

validatePassword(password, authData) ==
  IF password = << >> \/ ~authData.present THEN FALSE
  ELSE LET derivedKey == deriveKeyFromPassword(password, DefaultSalt)
       IN  IF derivedKey = NoKey THEN FALSE
           ELSE SHA256(derivedKey) = authData.keyHash

\* --------------------------------------------------------------- documents
Ids == 1..MaxId

NoColl    == [has |-> FALSE, at |-> [i \in Ids |-> 0]]
EmptyColl == [has |-> TRUE,  at |-> [i \in Ids |-> 0]]

\* null / undefined in the place of a document
NullDoc == [null |-> TRUE, docs |-> NoColl, files |-> NoColl, photos |-> NoColl,
            auth |-> NoAuth, meta |-> FALSE]

\* {}
EmptyObj == [NullDoc EXCEPT !.null = FALSE]

AssignReplacing(target, source) == [has |-> TRUE, at |-> source.at]

\* Object.assign(target || {}, source)
Assign(target, source) ==
  [has |-> TRUE,
   at  |-> [i \in Ids |-> IF source.at[i] # 0 THEN source.at[i] ELSE target.at[i]]]

\* if (!d.docs) d.docs = {}; if (!d.files) d.files = {}; if (!d.photos) d.photos = {}
EnsureSections(d) ==
  [d EXCEPT !.docs   = [@ EXCEPT !.has = TRUE],
            !.files  = [@ EXCEPT !.has = TRUE],
            !.photos = [@ EXCEPT !.has = TRUE]]

Keys(c) == {i \in Ids : c.at[i] # 0}

\* ------------------------------------------------------------------- files
\* The content of a file handed to the application.  kind: "none" (no file),
\* "notjson" (text that JSON.parse rejects), "badenvelope" (JSON without the
\* 'secure-vault' type or without data), "vault" (an envelope whose data is
\* the AES ciphertext of JSON.stringify(doc), or of a JSON number when prim,
\* under passphrase key; intact is FALSE once a character of data changed).
NoFile == [kind |-> "none", key |-> NoKey, prim |-> FALSE, doc |-> NullDoc,
           intact |-> TRUE]

NotJsonFile == [NoFile EXCEPT !.kind = "notjson"]

BadEnvelopeFile == [NoFile EXCEPT !.kind = "badenvelope"]

\* vaultFileObj of saveToSecureStorage, as JSON text
Envelope(key, doc) == [kind |-> "vault", key |-> key, prim |-> FALSE, doc |-> doc,
                       intact |-> TRUE]

PrimEnvelope(key) == [kind |-> "vault", key |-> key, prim |-> TRUE, doc |-> NullDoc,
                      intact |-> TRUE]

Corrupted(f) == [f EXCEPT !.intact = FALSE]

\* what decryptData returns: null, a parsed primitive, or a parsed object
NullResult == [null |-> TRUE, prim |-> FALSE, doc |-> NullDoc]

decryptDataAnyKey(f, key) ==
  IF key = NoKey THEN NullResult
  ELSE IF ~f.intact THEN NullResult
  ELSE [null |-> FALSE, prim |-> f.prim, doc |-> f.doc]

\* decryptData(vaultFileObj.data) with encryptionKey = key
decryptData(f, key) ==
  IF key = NoKey THEN NullResult
  ELSE IF f.key # key \/ ~f.intact THEN NullResult
  ELSE [null |-> FALSE, prim |-> f.prim, doc |-> f.doc]

\* ------------------------------------------------------------------- merge
\* the merge of saveToSecureStorage: vault is vaultData, data the argument
MergeSectionBaseWins(merged, data) ==
  IF data.has THEN Assign(data, merged) ELSE merged

MergeSection(merged, data) == IF data.has THEN Assign(merged, data) ELSE merged

Merge(vault, data) ==
  LET base == IF vault.null THEN EmptyObj ELSE vault
  IN  IF data.null THEN [base EXCEPT !.meta = TRUE]
      ELSE [null   |-> FALSE,
            docs   |-> MergeSection(base.docs, data.docs),
            files  |-> MergeSection(base.files, data.files),
            photos |-> MergeSection(base.photos, data.photos),
            auth   |-> IF data.auth.present THEN data.auth ELSE base.auth,
            meta   |-> TRUE]

\* ------------------------------------------------------------------- state
Modules == {"files", "photos"}

ModIndex(m) == IF m = "files" THEN 1 ELSE 2

VARIABLES
  localAuth,       \* localStorage 'auth'
  sessionKey,      \* sessionStorage 'sessionKey'
  encryptionKey,   \* database.js encryptionKey
  vaultData,       \* database.js vaultData
  vaultFile,       \* database.js vaultFile
  isAuthenticated, \* auth.js isAuthenticated
  db,              \* db of each feature module
  cls,             \* which object db[m] is: "vault" when it is the very
                   \* object vaultData refers to, else the first module
                   \* among those sharing the object
  pendingChanges,  \* pendingChanges of each feature module
  initialized,     \* the module's listeners are registered
  disk,            \* the latest file written by downloadVaultFile
  exporting,       \* exportDatabase is in its 800 ms wait
  dbInitialized,   \* IndexedDB build: dbInitialized
  idbData,         \* IndexedDB build: the data of record 'vault_data'
  localVaultData,  \* localStorage 'markdown_vault_data'
  editor,          \* the editor module: its listeners are registered, isEditorDirty,
                   \* the id of currentFile (0: none), the text in the editor
                   \* (0: empty) and db.docs
  savesInFlight,   \* IndexedDB build: the records of the saveToSecureStorage
                   \* calls that are awaiting IndexedDB
  last             \* the latest completed call and what it returned

vars == <<localAuth, sessionKey, encryptionKey, vaultData, vaultFile,
          isAuthenticated, db, cls, pendingChanges, initialized, disk,
          exporting, dbInitialized, idbData, localVaultData, savesInFlight,
          editor, last>>

dexieVars == <<dbInitialized, idbData, localVaultData, savesInFlight>>

Call(op, ok, pw, file, m, id, logins) ==
  [op |-> op, ok |-> ok, pw |-> pw, file |-> file, m |-> m, id |-> id,
   logins |-> logins, logouts |-> 0]

\* let db = { files: {} } / let db = { photos: {} }
OwnSection(m, d) == IF m = "files" THEN d.files ELSE d.photos

FreshDb(m) ==
  IF m = "files" THEN [EmptyObj EXCEPT !.files = EmptyColl]
  ELSE [EmptyObj EXCEPT !.photos = EmptyColl]

\* the editor module before initializeEditor: let currentFile = null; let
\* isEditorDirty = false; let db = { docs: {} }
NoEditor ==
  [initialized |-> FALSE, isEditorDirty |-> FALSE, currentFile |-> 0, value |-> 0,
   docs |-> EmptyColl]

Init ==
  /\ localAuth = NoAuth
  /\ sessionKey = NoKey
  /\ encryptionKey = NoKey
  /\ vaultData = NullDoc
  /\ vaultFile = NoFile
  /\ isAuthenticated = FALSE
  /\ db = [m \in Modules |-> FreshDb(m)]
  /\ cls = [m \in Modules |-> m]
  /\ pendingChanges = [m \in Modules |-> FALSE]
  /\ initialized = [m \in Modules |-> FALSE]
  /\ disk = NoFile
  /\ exporting = FALSE
  /\ dbInitialized = FALSE
  /\ idbData = NoFile
  /\ localVaultData = NullDoc
  /\ savesInFlight = << >>
  /\ editor = NoEditor
  /\ last = Call("init", TRUE, << >>, NoFile, "", 0, 0)

\* ---------------------------------------------------------------- aliasing
Rep(S) == CHOOSE m \in S : \A n \in S : ModIndex(m) <= ModIndex(n)

\* names every object by the first module that refers to it
Norm(c) ==
  [m \in Modules |->
     IF c[m] = "vault" THEN "vault" ELSE Rep({n \in Modules : c[n] = c[m]})]

\* vaultData = <a new object>: the modules that held the old one keep it
Detach(c) == Norm([m \in Modules |-> IF c[m] = "vault" THEN "old" ELSE c[m]])

\* ------------------------------------------------------------ database.js
\* setEncryptionKey(key), current being encryptionKey before the call
setEncryptionKey(current, key) == IF key = NoKey THEN current ELSE key

\* a save that merges into the document whatever it returns
saveToSecureStorageMergeFirst(vault, key, data) ==
  [ok |-> key # NoKey, vault |-> Merge(vault, data),
   file |-> IF key = NoKey THEN NoFile ELSE Envelope(key, Merge(vault, data))]

\* saveToSecureStorage(data, downloadFile) up to the assignment of vaultData:
\* what it returns, the merged document and the envelope it built
saveToSecureStorage(vault, key, data) ==
  IF key = NoKey
  THEN [ok |-> FALSE, vault |-> vault, file |-> NoFile]
  ELSE LET mergedData == Merge(vault, data)
       IN  [ok |-> TRUE, vault |-> mergedData, file |-> Envelope(key, mergedData)]

\* auth.js checkAuthentication
checkAuthentication(authenticated, skey) == authenticated \/ skey # NoKey

\* ------------------------------------------------- feature module start-up
\* The LOGIN listener of the application (initializeAppComponents) runs
\* initializeFileManager and then initializePhotoManager.  Each registers
\* its listeners and calls loadFromSecureStorage.  With no vault file the
\* module adopts the object vaultData refers to (and adds its own section
\* to it if absent) or, when there is none, a new { section: {} }.  With a
\* vault file each module's load decrypts the file with the encryption key
\* left by the handler and assigns the result to vaultData; a load that
\* returns null leaves the module with a new { section: {} }.  The file is
\* taken to be read before the next user action.
AdoptedVault(vd) ==
  [vd EXCEPT !.docs = [@ EXCEPT !.has = TRUE], !.files = [@ EXCEPT !.has = TRUE],
             !.photos = [@ EXCEPT !.has = TRUE]]

LoadedFileRaw(vf, key) ==
  LET decryptedData == decryptData(vf, key)
  IN  IF decryptedData.null \/ decryptedData.prim THEN NullDoc
      ELSE decryptedData.doc

\* loadFromSecureStorage with vaultFile = vf and encryptionKey = key
LoadedFile(vf, key) ==
  LET decryptedData == decryptData(vf, key)
  IN  IF decryptedData.null \/ decryptedData.prim THEN NullDoc
      ELSE EnsureSections(decryptedData.doc)

\* initializeEditor: the listeners are registered and db is the loaded
\* document (docs its docs collection) or a new { docs: {} }
EditorStarted(docs) == [editor EXCEPT !.initialized = TRUE, !.docs = docs]

Starts(n, key, skey, auth) == n > 0 /\ checkAuthentication(auth, skey) /\ key # NoKey

\* End of a handler of the session controller: n LOGIN events were
\* dispatched; vd is vaultData as the handler left it, replaced tells that
\* the handler assigned a new object to it; key, skey, auth, vf are
\* encryptionKey, sessionKey, isAuthenticated and vaultFile as it left them.
Finish(n, vd, replaced, key, skey, auth, vf) ==
  LET kept == IF replaced THEN Detach(cls) ELSE cls
  IN  IF ~Starts(n, key, skey, auth)
      THEN /\ vaultData' = vd
           /\ cls' = kept
           /\ UNCHANGED <<db, initialized, editor>>
      ELSE /\ initialized' = [m \in Modules |-> TRUE]
           /\ IF vf # NoFile
              THEN LET loaded == LoadedFile(vf, key)
                   IN  IF loaded.null
                       THEN /\ vaultData' = vd
                            /\ db' = [m \in Modules |-> FreshDb(m)]
                            /\ cls' = [m \in Modules |-> m]
                            /\ editor' = EditorStarted(EmptyColl)
                       ELSE /\ vaultData' = loaded
                            /\ db' = [m \in Modules |-> loaded]
                            /\ cls' = [m \in Modules |->
                                         IF m = "photos" THEN "vault" ELSE m]
                            /\ editor' = EditorStarted(loaded.docs)
              ELSE IF vd.null
                   THEN /\ vaultData' = vd
                        /\ db' = [m \in Modules |-> FreshDb(m)]
                        /\ cls' = [m \in Modules |-> m]
                        /\ editor' = EditorStarted(EmptyColl)
                   ELSE /\ vaultData' = AdoptedVault(vd)
                        /\ db' = [m \in Modules |-> AdoptedVault(vd)]
                        /\ cls' = [m \in Modules |-> "vault"]
                        /\ editor' = EditorStarted(AdoptedVault(vd).docs)

\* ---------------------------------------------------------------- auth.js
createUser(password, salt, storageFull) ==
  /\ UNCHANGED dexieVars
  /\ /\ IF password = << >> \/ storageFull
        THEN /\ last' = Call("createUser", FALSE, password, NoFile, "", 0, 0)
             /\ UNCHANGED <<localAuth, sessionKey, encryptionKey, vaultData, vaultFile,
                            isAuthenticated, db, cls, pendingChanges, initialized, disk, exporting, editor>>
        ELSE LET derivedKey == deriveKeyFromPassword(password, salt)
                 authData   == AuthRecord(salt, SHA256(derivedKey))
                 key        == setEncryptionKey(encryptionKey, derivedKey)
                 emptyVault == [null |-> FALSE, docs |-> EmptyColl, files |-> EmptyColl,
                                photos |-> EmptyColl, auth |-> authData, meta |-> FALSE]
                 saved      == saveToSecureStorage(vaultData, key, emptyVault)
             IN  /\ localAuth' = authData
                 /\ sessionKey' = derivedKey
                 /\ encryptionKey' = key
                 /\ Finish(1, saved.vault, saved.ok, key, derivedKey, isAuthenticated,
                           vaultFile)
                 /\ last' = Call("createUser", TRUE, password, NoFile, "", 0, 1)
                 /\ UNCHANGED <<vaultFile, isAuthenticated, pendingChanges, disk,
                                exporting>>

\* the state authenticateUser(password) leaves and what it returns
Authenticated(password) ==
  IF password # << >> /\ localAuth.present /\ validatePassword(password, localAuth)
  THEN LET derivedKey == deriveKeyFromPassword(password, localAuth.salt)
       IN  [ok |-> TRUE, skey |-> derivedKey,
            key |-> setEncryptionKey(encryptionKey, derivedKey), auth |-> TRUE,
            logins |-> 1]
  ELSE [ok |-> FALSE, skey |-> sessionKey, key |-> encryptionKey,
        auth |-> isAuthenticated, logins |-> 0]

authenticateUser(password) ==
  /\ UNCHANGED dexieVars
  /\ /\ LET r == Authenticated(password)
        IN  /\ sessionKey' = r.skey
            /\ encryptionKey' = r.key
            /\ isAuthenticated' = r.auth
            /\ Finish(r.logins, vaultData, FALSE, r.key, r.skey, r.auth, vaultFile)
            /\ last' = Call("authenticateUser", r.ok, password, NoFile, "", 0, r.logins)
     /\ UNCHANGED <<localAuth, vaultFile, pendingChanges, disk, exporting>>

\* storageFull: localStorage.setItem throws (quota exceeded)
changePassword(currentPassword, newPassword, salt, storageFull) ==
  /\ UNCHANGED dexieVars
  /\ LET r == Authenticated(currentPassword)
     IN  IF currentPassword = << >> \/ newPassword = << >> \/ ~r.ok
         THEN /\ last' = Call("changePassword", FALSE, currentPassword, NoFile, "", 0, 0)
              /\ UNCHANGED <<localAuth, sessionKey, encryptionKey, vaultData, vaultFile,
                             isAuthenticated, db, cls, pendingChanges, initialized, disk, exporting, editor>>
         ELSE LET derivedKey == deriveKeyFromPassword(newPassword, salt)
                  skey == IF storageFull THEN r.skey ELSE derivedKey
                  key  == IF storageFull THEN r.key ELSE setEncryptionKey(r.key, derivedKey)
              IN  /\ localAuth' = IF storageFull THEN localAuth
                                  ELSE AuthRecord(salt, SHA256(derivedKey))
                  /\ sessionKey' = skey
                  /\ encryptionKey' = key
                  /\ isAuthenticated' = r.auth
                  /\ Finish(1, vaultData, FALSE, key, skey, r.auth, vaultFile)
                  /\ last' = Call("changePassword", ~storageFull, currentPassword, NoFile,
                                  "", 0, 1)
                  /\ UNCHANGED <<vaultFile, pendingChanges, disk, exporting>>

logoutUser ==
  /\ UNCHANGED <<dexieVars, editor>>
  /\ /\ sessionKey' = NoKey
     /\ last' = [Call("logoutUser", TRUE, << >>, NoFile, "", 0, 0) EXCEPT !.logouts = 1]
     /\ UNCHANGED <<localAuth, encryptionKey, vaultData, vaultFile, isAuthenticated, db,
                    cls, pendingChanges, initialized, disk, exporting>>

logout ==
  /\ UNCHANGED <<dexieVars, editor>>
  /\ /\ isAuthenticated' = FALSE
     /\ encryptionKey' = setEncryptionKey(encryptionKey, NoKey)
     /\ vaultFile' = NoFile
     /\ last' = Call("logout", TRUE, << >>, NoFile, "", 0, 0)
     /\ UNCHANGED <<localAuth, sessionKey, vaultData, db, cls, pendingChanges,
                    initialized, disk, exporting>>

signup(password, salt) ==
  /\ UNCHANGED dexieVars
  /\ LET key   == deriveKeyFromPassword(password, salt)
         ekey  == setEncryptionKey(encryptionKey, key)
         emptyVault == [null |-> FALSE, docs |-> EmptyColl, files |-> EmptyColl,
                        photos |-> EmptyColl,
                        auth |-> AuthRecord(salt, SHA256(key)), meta |-> FALSE]
         saved == saveToSecureStorage(vaultData, ekey, emptyVault)
     IN  IF key = NoKey
         THEN /\ last' = Call("signup", FALSE, password, NoFile, "", 0, 0)
              /\ UNCHANGED <<localAuth, sessionKey, encryptionKey, vaultData, vaultFile,
                             isAuthenticated, db, cls, pendingChanges, initialized, disk, exporting, editor>>
         ELSE /\ encryptionKey' = ekey
              /\ isAuthenticated' = TRUE
              /\ Finish(1, saved.vault, TRUE, ekey, sessionKey, TRUE, vaultFile)
              /\ last' = Call("signup", TRUE, password, NoFile, "", 0, 1)
              /\ UNCHANGED <<localAuth, sessionKey, vaultFile, pendingChanges, disk,
                             exporting>>

\* ------------------------------------------- importDatabaseWithPassword
\* What a call leaves: ok the value returned, key encryptionKey, skey
\* sessionKey, vf vaultFile, vd vaultData, replaced whether vaultData was
\* assigned.
UnchangedDiscarding(ok) ==
  [ok |-> ok, key |-> encryptionKey, skey |-> sessionKey, vf |-> vaultFile,
   vd |-> NullDoc, replaced |-> TRUE]

Unchanged(ok) ==
  [ok |-> ok, key |-> encryptionKey, skey |-> sessionKey, vf |-> vaultFile,
   vd |-> vaultData, replaced |-> FALSE]

InstalledEmpty(key, skey, file, doc) ==
  [ok |-> TRUE, key |-> key, skey |-> skey, vf |-> file,
   vd |-> EnsureSections(EmptyObj), replaced |-> TRUE]

\* the end of a successful import: setVaultFile(file), the missing sections
\* added, vaultData = decryptedData, sessionKey stored
Installed(key, skey, file, doc) ==
  [ok |-> TRUE, key |-> key, skey |-> skey, vf |-> file,
   vd |-> EnsureSections(doc), replaced |-> TRUE]

\* first revision (database.js 428-510).  A parsed primitive passes the
\* !decryptedData test and fails at decryptedData.docs = {} (TypeError in
\* module code), after setVaultFile.
ImportSingleKey(file, password) ==
  IF file = NoFile \/ password = << >> THEN Unchanged(FALSE)
  ELSE IF file.kind # "vault" THEN Unchanged(FALSE)
  ELSE LET derivedKey == deriveKeyFromPassword(password, DefaultSalt)
           key == setEncryptionKey(encryptionKey, derivedKey)
           decryptedData == decryptData(file, key)
       IN  IF derivedKey = NoKey THEN Unchanged(FALSE)
           ELSE IF decryptedData.null THEN [Unchanged(FALSE) EXCEPT !.key = key]
           ELSE IF decryptedData.prim
                THEN [Unchanged(FALSE) EXCEPT !.key = key, !.vf = file]
           ELSE Installed(key, derivedKey, file, decryptedData.doc)

\* multi-key revision (database.js 2004-2131): the candidate keys, in order
CandidateKeys(password) ==
  << deriveKeyFromPassword(password, DefaultSalt),
     deriveKeyFromPassword(password, ""),
     LegacyHexKey(password),
     RawKey(password) >>

\* the for loop over keys: cur is encryptionKey when candidate i is reached
RECURSIVE TryKeys(_, _, _, _)
TryKeys(keys, i, file, cur) ==
  IF i > Len(keys) THEN [ok |-> FALSE, usedKey |-> NoKey, key |-> cur, doc |-> NullDoc]
  ELSE IF keys[i] = NoKey THEN TryKeys(keys, i + 1, file, cur)
  ELSE LET decryptedData == decryptData(file, keys[i])
       IN  IF ~decryptedData.null /\ ~decryptedData.prim
           THEN [ok |-> TRUE, usedKey |-> keys[i], key |-> keys[i],
                 doc |-> decryptedData.doc]
           ELSE TryKeys(keys, i + 1, file, keys[i])

ImportMultiKey(file, password) ==
  IF file = NoFile THEN Unchanged(FALSE)
  ELSE IF file.kind # "vault" THEN Unchanged(FALSE)
  ELSE LET keys == CandidateKeys(password)
           t == TryKeys(keys, 1, file, encryptionKey)
       IN  IF ~t.ok THEN [Unchanged(FALSE) EXCEPT !.key = t.key]
           ELSE Installed(IF t.usedKey # keys[1]
                          THEN setEncryptionKey(t.key,
                                 deriveKeyFromPassword(password, DefaultSalt))
                          ELSE t.key,
                          t.usedKey, file, t.doc)

Import(multiKey, file, password) ==
  IF multiKey THEN ImportMultiKey(file, password) ELSE ImportSingleKey(file, password)

\* the revision of database.js 1511-1554, whose deriveKeyFromPassword
\* (1265-1275) is the hex PBKDF2: the vault file is set before the data is
\* decrypted, the decrypted object is installed as it is, and sessionStorage
\* is not written
ImportFileFirst(file, password) ==
  IF file = NoFile \/ file.kind # "vault" THEN Unchanged(FALSE)
  ELSE IF password = << >> THEN Unchanged(FALSE)
  ELSE LET key == setEncryptionKey(encryptionKey, LegacyHexKey(password))
           decryptedData == decryptData(file, key)
       IN  IF decryptedData.null
           THEN [Unchanged(FALSE) EXCEPT !.key = key, !.vf = file]
           ELSE [ok |-> TRUE, key |-> key, skey |-> sessionKey, vf |-> file,
                 vd |-> decryptedData.doc, replaced |-> TRUE]

\* The files a user can hand to the application: the latest download, the
\* same with one character of data changed, a text file, a JSON file of
\* another type, an envelope around an encrypted JSON number, and vaults
\* written by older builds (hex PBKDF2 key, raw password as key).
LegacyDoc == [EnsureSections(EmptyObj) EXCEPT !.meta = TRUE]

ChosenFiles ==
  {NoFile, NotJsonFile, BadEnvelopeFile, disk, Corrupted(disk),
   PrimEnvelope(deriveKeyFromPassword(<<1>>, DefaultSalt))}

LegacyFiles ==
  {Envelope(LegacyHexKey(<<1>>), LegacyDoc), Envelope(RawKey(<<1>>), LegacyDoc)}

importDatabaseWithPassword(file, password) ==
  /\ UNCHANGED dexieVars
  /\ LET r == ImportSingleKey(file, password)
     IN  /\ encryptionKey' = r.key
         /\ sessionKey' = r.skey
         /\ vaultFile' = r.vf
         /\ Finish(0, r.vd, r.replaced, r.key, r.skey, isAuthenticated, r.vf)
         /\ last' = Call("importDatabaseWithPassword", r.ok, password, file, "", 0, 0)
         /\ UNCHANGED <<localAuth, isAuthenticated, pendingChanges, disk, exporting>>

importDatabaseWithPasswordMultiKey(file, password) ==
  /\ UNCHANGED dexieVars
  /\ LET r == ImportMultiKey(file, password)
     IN  /\ encryptionKey' = r.key
         /\ sessionKey' = r.skey
         /\ vaultFile' = r.vf
         /\ Finish(0, r.vd, r.replaced, r.key, r.skey, isAuthenticated, r.vf)
         /\ last' = Call("importDatabaseWithPassword", r.ok, password, file, "", 0, 0)
         /\ UNCHANGED <<localAuth, isAuthenticated, pendingChanges, disk, exporting>>

importDatabaseWithPasswordFileFirst(file, password) ==
  /\ UNCHANGED dexieVars
  /\ ~file.prim
  /\ LET r == ImportFileFirst(file, password)
     IN  /\ encryptionKey' = r.key
         /\ sessionKey' = r.skey
         /\ vaultFile' = r.vf
         /\ Finish(0, r.vd, r.replaced, r.key, r.skey, isAuthenticated, r.vf)
         /\ last' = Call("importDatabaseWithPassword", r.ok, password, file, "", 0, 0)
         /\ UNCHANGED <<localAuth, isAuthenticated, pendingChanges, disk, exporting>>

\* auth.js login(password, vaultFile)
login(password, file, multiKey) ==
  /\ UNCHANGED dexieVars
  /\ LET r == Import(multiKey, file, password)
         auth == IF r.ok THEN TRUE ELSE isAuthenticated
         n == IF r.ok THEN 1 ELSE 0
     IN  /\ encryptionKey' = r.key
         /\ sessionKey' = r.skey
         /\ vaultFile' = r.vf
         /\ isAuthenticated' = auth
         /\ Finish(n, r.vd, r.replaced, r.key, r.skey, auth, r.vf)
         /\ last' = Call("login", r.ok, password, file, "", 0, n)
         /\ UNCHANGED <<localAuth, pendingChanges, disk, exporting>>

\* --------------------------------------------------------- feature modules
SetOwn(m, d, id, v) ==
  IF m = "files" THEN [d EXCEPT !.files.at[id] = v] ELSE [d EXCEPT !.photos.at[id] = v]

\* an assignment to db.<section>[id] through module m reaches every
\* reference to the same object
WriteDb(m, id, v) ==
  [n \in Modules |-> IF cls[n] = cls[m] THEN SetOwn(m, db[n], id, v) ELSE db[n]]

WriteVault(m, id, v) ==
  IF cls[m] = "vault" THEN SetOwn(m, vaultData, id, v) ELSE vaultData

\* generateId never returns an id that exists anywhere
KnownIds(m) ==
  UNION {Keys(OwnSection(m, d)) :
           d \in {vaultData, disk.doc, vaultFile.doc} \cup {db[n] : n \in Modules}}

ModuleFailed(op, m, id) ==
  /\ UNCHANGED <<dexieVars, editor>>
  /\ /\ last' = Call(op, FALSE, << >>, NoFile, m, id, 0)
     /\ UNCHANGED <<localAuth, sessionKey, encryptionKey, vaultData, vaultFile,
                    isAuthenticated, db, cls, pendingChanges, initialized,
                    disk, exporting>>

\* the change made to db, followed by const saveResult = await saveToSecureStorage(db)
ModuleSave(op, m, id, v) ==
  /\ UNCHANGED <<dexieVars, editor>>
  /\ LET db1   == WriteDb(m, id, v)
         saved == saveToSecureStorage(WriteVault(m, id, v), encryptionKey, db1[m])
     IN  /\ db' = db1
         /\ vaultData' = saved.vault
         /\ cls' = IF saved.ok THEN Detach(cls) ELSE cls
         /\ pendingChanges' = [pendingChanges EXCEPT ![m] = ~saved.ok]
         /\ last' = Call(op, saved.ok, << >>, NoFile, m, id, 0)
         /\ UNCHANGED <<localAuth, sessionKey, encryptionKey, vaultFile, isAuthenticated,
                        initialized, disk, exporting>>

\* uploadFiles / uploadPhotos with one file, whose processFile / processPhoto
\* stores the new item under a generated id
uploadFiles(m, id) ==
  /\ initialized[m]
  /\ id \notin KnownIds(m)
  /\ IF encryptionKey = NoKey THEN ModuleFailed("uploadFiles", m, id)
     ELSE ModuleSave("uploadFiles", m, id, 1)

\* deleteFile / deletePhoto of an item the module lists
deleteFile(m, id) ==
  /\ initialized[m]
  /\ id \in Keys(OwnSection(m, db[m]))
  /\ IF encryptionKey = NoKey THEN ModuleFailed("deleteFile", m, id)
     ELSE ModuleSave("deleteFile", m, id, 0)

\* ------------------------------------------------------------- the editor
\* the document the editor hands to saveToSecureStorage(db)
EditorDb(docs) == [EmptyObj EXCEPT !.docs = docs]

\* saveCurrentFile with a current file: the editor's text is stored as the
\* content of db.docs[currentFile.id]
EditedDocs(e) == [e.docs EXCEPT !.at[e.currentFile] = e.value]

\* what the editor's actions leave alone
EditorUnchanged ==
  UNCHANGED <<localAuth, sessionKey, encryptionKey, vaultFile, isAuthenticated, db,
              pendingChanges, initialized, disk, exporting, dexieVars>>

\* the 'input' listener of the editor: the user types text v
editorInput(v) ==
  /\ editor.initialized
  /\ editor' = [editor EXCEPT !.value = v, !.isEditorDirty = TRUE]
  /\ last' = Call("editorInput", TRUE, << >>, NoFile, "docs", v, 0)
  /\ UNCHANGED <<vaultData, cls>>
  /\ EditorUnchanged

\* generateId never returns an id that exists anywhere
KnownDocIds == Keys(editor.docs) \cup Keys(vaultData.docs) \cup Keys(disk.doc.docs)

\* saveCurrentFile() from the save button.  named: the user gives a name at
\* the prompt for a new document; id is the id generateId returns then.
saveCurrentFile(named, id) ==
  /\ editor.initialized
  /\ editor.value # 0
  /\ editor.currentFile = 0 => id \notin KnownDocIds
  /\ IF encryptionKey = NoKey \/ (editor.currentFile = 0 /\ ~named)
     THEN /\ last' = Call("saveCurrentFile", FALSE, << >>, NoFile, "docs", 0, 0)
          /\ UNCHANGED <<vaultData, cls, editor>>
     ELSE LET file  == IF editor.currentFile = 0 THEN id ELSE editor.currentFile
              docs  == EditedDocs([editor EXCEPT !.currentFile = file])
              saved == saveToSecureStorage(vaultData, encryptionKey, EditorDb(docs))
          IN  /\ vaultData' = saved.vault
              /\ cls' = Detach(cls)
              /\ editor' = [editor EXCEPT !.currentFile = file, !.docs = docs,
                                          !.isEditorDirty = FALSE]
              /\ last' = Call("saveCurrentFile", TRUE, << >>, NoFile, "docs", file, 0)
  /\ EditorUnchanged

\* createNewDocument, the user having confirmed when there are unsaved changes
createNewDocument ==
  /\ editor.initialized
  /\ editor' = [editor EXCEPT !.value = 0, !.currentFile = 0, !.isEditorDirty = FALSE]
  /\ last' = Call("createNewDocument", TRUE, << >>, NoFile, "docs", 0, 0)
  /\ UNCHANGED <<vaultData, cls>>
  /\ EditorUnchanged

\* selectFile(file) of a listed document, confirmed likewise
selectFile(id) ==
  /\ editor.initialized
  /\ id \in Keys(editor.docs)
  /\ editor' = [editor EXCEPT !.value = editor.docs.at[id], !.currentFile = id,
                              !.isEditorDirty = FALSE]
  /\ last' = Call("selectFile", TRUE, << >>, NoFile, "docs", id, 0)
  /\ UNCHANGED <<vaultData, cls>>
  /\ EditorUnchanged

\* an export that starts from an empty document instead of vaultData
ExportSaveFromEmpty(vd) ==
  saveToSecureStorage(NullDoc, encryptionKey,
                      EnsureSections(IF localAuth.present
                                     THEN [EmptyObj EXCEPT !.auth = localAuth]
                                     ELSE EmptyObj))

\* ---------------------------------------------------------- exportDatabase
\* a module's 'vault:autosave' listener; st carries vaultData, cls and
\* pendingChanges through the listeners
AutosaveListener(st, m) ==
  IF initialized[m] /\ st.pending[m]
  THEN LET saved == saveToSecureStorage(st.vd, encryptionKey, db[m])
       IN  IF saved.ok
           THEN [st EXCEPT !.vd = saved.vault, !.cls = Detach(st.cls),
                           !.pending = [st.pending EXCEPT ![m] = FALSE]]
           ELSE st
  ELSE st

\* the editor's 'vault:autosave' listener, which runs first
EditorAutosaveListener(st) ==
  IF st.editor.initialized /\ st.editor.isEditorDirty /\ st.editor.currentFile # 0
  THEN LET docs  == EditedDocs(st.editor)
           saved == saveToSecureStorage(st.vd, encryptionKey, EditorDb(docs))
       IN  IF saved.ok
           THEN [st EXCEPT !.vd = saved.vault, !.cls = Detach(st.cls),
                           !.editor = [st.editor EXCEPT !.docs = docs,
                                                        !.isEditorDirty = FALSE]]
           ELSE st
  ELSE st

\* window.dispatchEvent(new CustomEvent('vault:autosave'))
DispatchAutosave ==
  AutosaveListener(
    AutosaveListener(
      EditorAutosaveListener([vd |-> vaultData, cls |-> cls,
                              pending |-> pendingChanges, editor |-> editor]),
      "files"),
    "photos")

\* exportDatabase after the wait, vd being vaultData then: the copy of
\* vaultData with its sections and the credential record, handed to
\* saveToSecureStorage(mergedData, true)
ExportSave(vd) ==
  LET copy == IF vd.null THEN EmptyObj ELSE vd
      withAuth == IF ~copy.auth.present /\ localAuth.present
                  THEN [copy EXCEPT !.auth = localAuth] ELSE copy
  IN  saveToSecureStorage(vd, encryptionKey, EnsureSections(withAuth))

\* exportDatabase with nothing else running during its 800 ms wait.
\* downloadFails: downloadVaultFile catches an error (the Blob or the link
\* cannot be created) and resolves false, which saveToSecureStorage ignores.
exportDatabase(downloadFails) ==
  /\ UNCHANGED dexieVars
  /\ /\ ~exporting
     /\ IF encryptionKey = NoKey
        THEN /\ last' = Call("exportDatabase", FALSE, << >>, NoFile, "", 0, 0)
             /\ UNCHANGED <<vaultData, cls, pendingChanges, disk, editor>>
        ELSE LET st == DispatchAutosave
                 saved == ExportSave(st.vd)
             IN  /\ vaultData' = saved.vault
                 /\ cls' = Detach(st.cls)
                 /\ pendingChanges' = st.pending
                 /\ editor' = st.editor
                 /\ disk' = IF downloadFails THEN disk ELSE saved.file
                 /\ last' = Call("exportDatabase", TRUE, << >>, NoFile, "", 0, 0)
     /\ UNCHANGED <<localAuth, sessionKey, encryptionKey, vaultFile, isAuthenticated, db,
                    initialized, exporting>>

\* exportDatabase up to its 800 ms wait
exportDatabaseBegin ==
  /\ UNCHANGED dexieVars
  /\ /\ ~exporting
     /\ IF encryptionKey = NoKey
        THEN /\ last' = Call("exportDatabase", FALSE, << >>, NoFile, "", 0, 0)
             /\ UNCHANGED <<vaultData, cls, pendingChanges, exporting, editor>>
        ELSE LET st == DispatchAutosave
             IN  /\ vaultData' = st.vd
                 /\ cls' = st.cls
                 /\ pendingChanges' = st.pending
                 /\ editor' = st.editor
                 /\ exporting' = TRUE
                 /\ last' = Call("exportDatabase.wait", TRUE, << >>, NoFile, "", 0, 0)
     /\ UNCHANGED <<localAuth, sessionKey, encryptionKey, vaultFile, isAuthenticated, db,
                    initialized, disk>>

\* exportDatabase from the end of the wait on.  saveToSecureStorage(mergedData,
\* true) awaits downloadVaultFile, whose promise is resolved inside its own
\* executor: the continuation (vaultData = mergedData) is a microtask of the
\* same task, so no other handler runs between the merge and the assignment.
exportDatabaseEnd ==
  /\ UNCHANGED <<dexieVars, editor>>
  /\ /\ exporting
     /\ LET saved == ExportSave(vaultData)
        IN  /\ vaultData' = saved.vault
            /\ cls' = IF saved.ok THEN Detach(cls) ELSE cls
            /\ disk' = IF saved.ok THEN saved.file ELSE disk
            /\ last' = Call("exportDatabase", saved.ok, << >>, NoFile, "", 0, 0)
     /\ exporting' = FALSE
     /\ UNCHANGED <<localAuth, sessionKey, encryptionKey, vaultFile, isAuthenticated, db,
                    pendingChanges, initialized>>

\* ------------------------------------------------------- IndexedDB build
\* The revision of database.js that keeps the vault in IndexedDB (Dexie).
\* deriveKeyFromPassword(password, salt = 'MarkdownVaultSalt'): hex PBKDF2
DexieSalt == "MarkdownVaultSalt"

deriveKeyDexie(password) ==
  IF password = << >> THEN NoKey ELSE PBKDF2("pbkdf2-sha1-hex", password, DexieSalt)

\* the data of a dataRecord: encryptData(data) under key
EncryptedRecord(key, doc) ==
  [kind |-> "encrypted", key |-> key, prim |-> FALSE, doc |-> doc, intact |-> TRUE]

\* exportObj as JSON text: { type: 'markdown-vault-export', ..., data: data }
PlainExport(doc) ==
  [kind |-> "markdown-vault-export", key |-> NoKey, prim |-> FALSE, doc |-> doc,
   intact |-> TRUE]

\* the documents the editor hands to saveToSecureStorage
DexieDocs ==
  {EnsureSections(EmptyObj), [EnsureSections(EmptyObj) EXCEPT !.docs.at[1] = 1]}

DexieUnchanged ==
  UNCHANGED <<localAuth, sessionKey, vaultData, vaultFile, isAuthenticated, db, cls,
              pendingChanges, initialized, exporting, savesInFlight,
              editor>>

initializeDatabase ==
  /\ ~dbInitialized
  /\ dbInitialized' = TRUE
  /\ last' = Call("initializeDatabase", TRUE, << >>, NoFile, "", 0, 0)
  /\ DexieUnchanged
  /\ UNCHANGED <<encryptionKey, idbData, localVaultData, disk>>

\* setEncryptionKey(deriveKeyFromPassword(password))
setEncryptionKeyDexie(password) ==
  /\ encryptionKey' = setEncryptionKey(encryptionKey, deriveKeyDexie(password))
  /\ last' = Call("setEncryptionKey", deriveKeyDexie(password) # NoKey, password,
                  NoFile, "", 0, 0)
  /\ DexieUnchanged
  /\ UNCHANGED <<dbInitialized, idbData, localVaultData, disk>>

\* saveToSecureStorage(data) of database.js 2393-2443: what it returns and
\* the record it leaves in IndexedDB
SavedDexie(data) ==
  IF ~dbInitialized \/ encryptionKey = NoKey THEN [ok |-> FALSE, idb |-> idbData]
  ELSE [ok |-> TRUE, idb |-> EncryptedRecord(encryptionKey, data)]

saveToSecureStorageDexie(data) ==
  /\ idbData' = SavedDexie(data).idb
  /\ last' = Call("saveToSecureStorage", SavedDexie(data).ok, << >>, NoFile, "", 0, 0)
  /\ DexieUnchanged
  /\ UNCHANGED <<encryptionKey, dbInitialized, localVaultData, disk>>

\* saveToSecureStorage(data) of the transitional revision
saveToSecureStorageLocal(data) ==
  /\ IF ~dbInitialized \/ encryptionKey = NoKey
     THEN /\ last' = Call("saveToSecureStorage", FALSE, << >>, NoFile, "", 0, 0)
          /\ UNCHANGED localVaultData
     ELSE /\ localVaultData' = data
          /\ last' = Call("saveToSecureStorage", TRUE, << >>, NoFile, "", 0, 0)
  /\ DexieUnchanged
  /\ UNCHANGED <<encryptionKey, dbInitialized, idbData, disk>>

\* loadFromSecureStorage() with migrateFromLocalStorage(): the data returned
\* and what IndexedDB and localStorage hold afterwards
LoadedDexie ==
  IF ~dbInitialized \/ encryptionKey = NoKey
  THEN [data |-> NullDoc, idb |-> idbData, local |-> localVaultData]
  ELSE IF idbData = NoFile
       THEN IF localVaultData.null
            THEN [data |-> NullDoc, idb |-> idbData, local |-> localVaultData]
            ELSE [data |-> localVaultData, idb |-> SavedDexie(localVaultData).idb,
                  local |-> NullDoc]
       ELSE LET decrypted == decryptData(idbData, encryptionKey)
            IN  [data |-> IF decrypted.null \/ decrypted.prim THEN NullDoc
                          ELSE decrypted.doc,
                 idb |-> idbData, local |-> localVaultData]

\* exportDatabase() of database.js 2529-2567
exportDatabaseDexie ==
  /\ LET loaded == LoadedDexie
     IN  /\ idbData' = loaded.idb
         /\ localVaultData' = loaded.local
         /\ disk' = IF loaded.data.null THEN disk ELSE PlainExport(loaded.data)
         /\ last' = Call("exportDatabase", ~loaded.data.null, << >>, NoFile, "", 0, 0)
  /\ DexieUnchanged
  /\ UNCHANGED <<encryptionKey, dbInitialized>>

\* saveToSecureStorage(data) of database.js 2393-2443 up to its first
\* await (db.meta.get): the checks and encryptData(data)
saveDexieStart(data) ==
  /\ Len(savesInFlight) < MaxInFlight
  /\ IF ~dbInitialized \/ encryptionKey = NoKey
     THEN /\ last' = Call("saveToSecureStorage", FALSE, << >>, NoFile, "", 0, 0)
          /\ UNCHANGED savesInFlight
     ELSE /\ savesInFlight' = Append(savesInFlight, EncryptedRecord(encryptionKey, data))
          /\ UNCHANGED last
  /\ UNCHANGED <<localAuth, sessionKey, encryptionKey, vaultData, vaultFile,
                 isAuthenticated, db, cls, pendingChanges, initialized, disk, exporting,
                 dbInitialized, idbData, localVaultData, editor>>

\* the same call from await db.data.put(dataRecord) on; the transactions
\* of two calls complete in either order
saveDexieFinish(k) ==
  /\ k \in 1..Len(savesInFlight)
  /\ idbData' = savesInFlight[k]
  /\ savesInFlight' = [i \in 1..(Len(savesInFlight) - 1) |->
                         IF i < k THEN savesInFlight[i] ELSE savesInFlight[i + 1]]
  /\ last' = Call("saveToSecureStorage", TRUE, << >>, NoFile, "", k, 0)
  /\ UNCHANGED <<localAuth, sessionKey, encryptionKey, vaultData, vaultFile,
                 isAuthenticated, db, cls, pendingChanges, initialized, disk, exporting,
                 dbInitialized, localVaultData, editor>>

\* ------------------------------------------------------------ page life
\* a new tab or browser start: module memory and sessionStorage start
\* empty, localStorage and the downloaded file remain
FreshSession ==
  /\ sessionKey' = NoKey
  /\ encryptionKey' = NoKey
  /\ vaultData' = NullDoc
  /\ vaultFile' = NoFile
  /\ isAuthenticated' = FALSE
  /\ db' = [m \in Modules |-> FreshDb(m)]
  /\ cls' = [m \in Modules |-> m]
  /\ pendingChanges' = [m \in Modules |-> FALSE]
  /\ initialized' = [m \in Modules |-> FALSE]
  /\ exporting' = FALSE
  /\ last' = Call("FreshSession", TRUE, << >>, NoFile, "", 0, 0)
  /\ dbInitialized' = FALSE
  /\ savesInFlight' = << >>
  /\ editor' = NoEditor
  /\ UNCHANGED <<localAuth, disk, idbData, localVaultData>>

\* ----------------------------------------------------------- specifications
\* The vault and its feature modules under one password: account creation,
\* uploads, deletions, exports, and a new session that logs in with the file.
StorePassword == <<1>>

NextStore ==
  \/ createUser(StorePassword, "s1", FALSE)
  \/ \E m \in Modules, i \in Ids : uploadFiles(m, i)
  \/ \E m \in Modules, i \in Ids : deleteFile(m, i)
  \/ exportDatabase(FALSE)
  \/ \E mk \in BOOLEAN : login(StorePassword, disk, mk)
  \/ FreshSession

SpecStore == Init /\ [][NextStore]_vars

\* Export and import: a vault is created, filled, written
\* to a file, and files are imported with any password by either revision
\* of importDatabaseWithPassword, in the same or in a new session.
NextImport ==
  \/ createUser(StorePassword, "s1", FALSE)
  \/ uploadFiles("files", 1)
  \/ exportDatabase(FALSE)
  \/ \E f \in ChosenFiles, p \in Passwords : importDatabaseWithPassword(f, p)
  \/ FreshSession

SpecImport == Init /\ [][NextImport]_vars

\* The multi-key decoder: vaults written by this build and by older builds,
\* imported with passwords and with key texts.
NextMultiKey ==
  \/ createUser(StorePassword, "s1", FALSE)
  \/ exportDatabase(FALSE)
  \/ \E f \in {disk} \cup LegacyFiles, p \in AnyPassword :
       importDatabaseWithPasswordMultiKey(f, p)
  \/ FreshSession

SpecMultiKey == Init /\ [][NextMultiKey]_vars

\* The session controller: account creation, sign-up, unlock, password
\* change and the two logouts, in the same or in a new session.
NextAuth ==
  \/ \E p \in Passwords, s \in Salts, full \in BOOLEAN : createUser(p, s, full)
  \/ \E p \in Passwords, s \in Salts : signup(p, s)
  \/ \E p \in Passwords : authenticateUser(p)
  \/ \E p, q \in Passwords, s \in Salts, full \in BOOLEAN :
       changePassword(p, q, s, full)
  \/ logoutUser
  \/ logout
  \/ FreshSession

SpecAuth == Init /\ [][NextAuth]_vars

\* Password change and the exported vault: the vault of one password is
\* exported, its password changed (localStorage may refuse the write), and
\* the file opened again, in the same or in a new session.
NextChange ==
  \/ createUser(StorePassword, "s1", FALSE)
  \/ \E p, q \in Passwords, full \in BOOLEAN : changePassword(p, q, "s2", full)
  \/ logoutUser
  \/ exportDatabase(FALSE)
  \/ \E p \in Passwords : login(p, disk, FALSE)
  \/ FreshSession

SpecChange == Init /\ [][NextChange]_vars

\* Export with its wait: uploads and deletions run between the dispatch of
\* 'vault:autosave' and the save that writes the file.
NextWait ==
  \/ \E s \in Salts : createUser(StorePassword, s, FALSE)
  \/ \E m \in Modules, i \in Ids : uploadFiles(m, i)
  \/ \E m \in Modules, i \in Ids : deleteFile(m, i)
  \/ exportDatabaseBegin
  \/ exportDatabaseEnd
  \/ FreshSession

SpecWait == Init /\ [][NextWait]_vars

\* a vault written by a build that kept documents only: its document has
\* docs and no files or photos key
DocsOnlyFile ==
  Envelope(deriveKeyFromPassword(StorePassword, DefaultSalt),
           [EmptyObj EXCEPT !.docs = EmptyColl, !.meta = TRUE])

\* Where the vault document comes from: account creation, sign-up, import
\* and login with the latest download or with a documents-only vault.
NextSections ==
  \/ createUser(StorePassword, "s1", FALSE)
  \/ signup(StorePassword, "s1")
  \/ uploadFiles("files", 1)
  \/ exportDatabase(FALSE)
  \/ \E f \in {disk, DocsOnlyFile}, p \in {<<1>>, <<2>>} :
       importDatabaseWithPassword(f, p)
  \/ \E f \in {disk, DocsOnlyFile} : login(StorePassword, f, FALSE)
  \/ FreshSession

SpecSections == Init /\ [][NextSections]_vars

\* The IndexedDB build: the database is opened, a key set, documents saved
\* by either revision of saveToSecureStorage, and the vault exported.
NextDexie ==
  \/ initializeDatabase
  \/ \E p \in {<<1>>, <<2>>} : setEncryptionKeyDexie(p)
  \/ \E d \in DexieDocs : saveToSecureStorageDexie(d)
  \/ \E d \in DexieDocs : saveToSecureStorageLocal(d)
  \/ exportDatabaseDexie
  \/ FreshSession

SpecDexie == Init /\ [][NextDexie]_vars

\* Saving and exporting when the browser may refuse the download.
NextDownload ==
  \/ createUser(StorePassword, "s1", FALSE)
  \/ \E m \in Modules, i \in Ids : uploadFiles(m, i)
  \/ \E downloadFails \in BOOLEAN : exportDatabase(downloadFails)
  \/ FreshSession

SpecDownload == Init /\ [][NextDownload]_vars

\* The merge of saveToSecureStorage on its own: the session is unlocked, the
\* vault document and the db object of each feature module are drawn from
\* bounded sets (an item is 1 or 2: two contents of one id), and each module
\* saves its db.
MergeColls == {NoColl} \cup {[has |-> TRUE, at |-> f] : f \in [Ids -> {0, 1, 2}]}

MergeBases ==
  {NullDoc} \cup {[EmptyObj EXCEPT !.files = c, !.docs = d] :
                    c \in MergeColls, d \in {NoColl, EmptyColl}}

MergePartials ==
  {[EmptyObj EXCEPT !.files = c, !.photos = d] :
     c \in MergeColls, d \in {NoColl, EmptyColl}}

InitMerge ==
  /\ localAuth = AuthRecord("s1", SHA256(deriveKeyFromPassword(StorePassword, "s1")))
  /\ sessionKey = deriveKeyFromPassword(StorePassword, "s1")
  /\ encryptionKey = deriveKeyFromPassword(StorePassword, "s1")
  /\ vaultData \in MergeBases
  /\ vaultFile = NoFile
  /\ isAuthenticated = FALSE
  /\ db \in [Modules -> MergePartials]
  /\ cls = [m \in Modules |-> m]
  /\ pendingChanges = [m \in Modules |-> TRUE]
  /\ initialized = [m \in Modules |-> TRUE]
  /\ disk = NoFile
  /\ exporting = FALSE
  /\ dbInitialized = FALSE
  /\ idbData = NoFile
  /\ localVaultData = NullDoc
  /\ savesInFlight = << >>
  /\ editor = NoEditor
  /\ last = Call("init", TRUE, << >>, NoFile, "", 0, 0)

\* const saveResult = await saveToSecureStorage(db) of module m
saveModule(m) ==
  LET saved == saveToSecureStorage(vaultData, encryptionKey, db[m])
  IN  /\ pendingChanges[m]
      /\ vaultData' = saved.vault
      /\ pendingChanges' = [pendingChanges EXCEPT ![m] = ~saved.ok]
      /\ last' = Call("saveToSecureStorage", saved.ok, << >>, NoFile, m, 0, 0)
      /\ UNCHANGED <<localAuth, sessionKey, encryptionKey, vaultFile, isAuthenticated,
                     db, cls, initialized, disk, exporting, dexieVars, editor>>

NextMerge == \E m \in Modules : saveModule(m)

SpecMerge == InitMerge /\ [][NextMerge]_vars

\* Saves of the IndexedDB build with their awaits: a save may be requested
\* while another one has not written its record yet.
NextQueue ==
  \/ initializeDatabase
  \/ \E p \in {<<1>>, <<2>>} : setEncryptionKeyDexie(p)
  \/ \E d \in DexieDocs : saveDexieStart(d)
  \/ \E k \in 1..MaxInFlight : saveDexieFinish(k)
  \/ FreshSession

SpecQueue == Init /\ [][NextQueue]_vars

\* The editor: documents are typed, saved, opened and exported, and the
\* user logs out.  A text is 1 or 2.
NextEditor ==
  \/ createUser(StorePassword, "s1", FALSE)
  \/ \E v \in {1, 2} : editorInput(v)
  \/ \E named \in BOOLEAN, i \in Ids : saveCurrentFile(named, i)
  \/ createNewDocument
  \/ \E i \in Ids : selectFile(i)
  \/ exportDatabase(FALSE)
  \/ logout
  \/ FreshSession

SpecEditor == Init /\ [][NextEditor]_vars

\* The revision of importDatabaseWithPassword that sets the vault file
\* first: vaults of that build, intact or corrupted, and a text file are
\* imported with any password.
FileFirstFiles == LegacyFiles \cup {Corrupted(f) : f \in LegacyFiles} \cup {NotJsonFile}

NextFileFirst ==
  \/ \E f \in FileFirstFiles, p \in Passwords :
       importDatabaseWithPasswordFileFirst(f, p)
  \/ logout
  \/ FreshSession

SpecFileFirst == Init /\ [][NextFileFirst]_vars

\* ------------------------------------------- saves that fail to encrypt
\* the marker cleared whatever the save returned
FailedSaveMarkerCleared(marker) == FALSE

\* the listener's  if (saveResult) { pendingChanges = false } else { ... }
\* with saveResult false: the marker is left as it is
FailedSaveMarker(marker) == marker

\* the editor's deleteFile(file) of a listed document, confirmed by the user
deleteDocument(id) ==
  /\ editor.initialized
  /\ id \in Keys(editor.docs)
  /\ IF encryptionKey = NoKey
     THEN /\ last' = Call("deleteDocument", FALSE, << >>, NoFile, "docs", id, 0)
          /\ UNCHANGED <<vaultData, cls, editor>>
     ELSE LET e1    == IF editor.currentFile = id
                       THEN [editor EXCEPT !.value = 0, !.currentFile = 0,
                                           !.isEditorDirty = FALSE]
                       ELSE editor
              docs  == [editor.docs EXCEPT !.at[id] = 0]
              saved == saveToSecureStorage(vaultData, encryptionKey, EditorDb(docs))
          IN  /\ vaultData' = saved.vault
              /\ cls' = Detach(cls)
              /\ editor' = [e1 EXCEPT !.docs = docs]
              /\ last' = Call("deleteDocument", TRUE, << >>, NoFile, "docs", id, 0)
  /\ EditorUnchanged

\* uploadFiles / uploadPhotos when encryptData returns null inside
\* saveToSecureStorage: processFile has stored the item and set
\* pendingChanges, the save returns false and the handler throws into its
\* own catch
uploadFilesEncryptFails(m, id) ==
  /\ initialized[m]
  /\ id \notin KnownIds(m)
  /\ encryptionKey # NoKey
  /\ db' = WriteDb(m, id, 1)
  /\ vaultData' = WriteVault(m, id, 1)
  /\ pendingChanges' = [pendingChanges EXCEPT ![m] = FailedSaveMarker(TRUE)]
  /\ last' = Call("uploadFiles", FALSE, << >>, NoFile, m, id, 0)
  /\ UNCHANGED <<localAuth, sessionKey, encryptionKey, vaultFile, isAuthenticated,
                 cls, initialized, disk, exporting, dexieVars, editor>>

\* exportDatabase while encryptData returns null: every listener of
\* 'vault:autosave' whose marker is set calls its save, which returns
\* false (the editor has stored its text in db.docs before), and the
\* final saveToSecureStorage(mergedData, true) returns false as well
exportDatabaseEncryptFails ==
  /\ ~exporting
  /\ encryptionKey # NoKey
  /\ pendingChanges' = [m \in Modules |->
                          IF initialized[m] /\ pendingChanges[m]
                          THEN FailedSaveMarker(pendingChanges[m])
                          ELSE pendingChanges[m]]
  /\ editor' = IF editor.initialized /\ editor.isEditorDirty /\ editor.currentFile # 0
               THEN [editor EXCEPT !.docs = EditedDocs(editor),
                                   !.isEditorDirty = FailedSaveMarker(editor.isEditorDirty)]
               ELSE editor
  /\ last' = Call("exportDatabase", FALSE, << >>, NoFile, "", 0, 0)
  /\ UNCHANGED <<localAuth, sessionKey, encryptionKey, vaultData, vaultFile,
                 isAuthenticated, db, cls, initialized, disk, exporting, dexieVars>>

\* Uploads, edits and exports, each save succeeding or failing to encrypt.
NextAutosave ==
  \/ createUser(StorePassword, "s1", FALSE)
  \/ \E m \in Modules : uploadFiles(m, 1)
  \/ \E m \in Modules : uploadFilesEncryptFails(m, 2)
  \/ editorInput(1)
  \/ \E named \in BOOLEAN : saveCurrentFile(named, 1)
  \/ createNewDocument
  \/ selectFile(1)
  \/ deleteDocument(1)
  \/ exportDatabase(FALSE)
  \/ exportDatabaseEncryptFails
  \/ FreshSession

SpecAutosave == Init /\ [][NextAutosave]_vars

\* ------------------------------------- the decoder of database.js 1025-1102
\* deriveKeyFromPassword of that revision (627-635): PBKDF2 with the salt
\* given, as hex text, the password untrimmed
deriveKeyHex(password, salt) ==
  IF password = << >> THEN NoKey ELSE PBKDF2("pbkdf2-sha1-hex", password, salt)

\* CryptoJS.SHA256(password).toString()
Sha256PasswordKey(password) == [kdf |-> "sha256-hex", pw |-> password, salt |-> ""]

\* decryptedData && typeof decryptedData === 'object'
IsObject(d) == ~d.null /\ ~d.prim

\* The four attempts.  Attempts 1 and 2 are skipped when the key is null;
\* attempt 3 calls setEncryptionKey(password), which ignores an empty
\* string, and decrypts with encryptionKey as it is then; attempt 4 always
\* has a key.  usedKey is stored in sessionStorage if it is not empty.
ImportHashLast(file, password) ==
  IF file = NoFile THEN Unchanged(FALSE)
  ELSE IF file.kind # "vault" THEN Unchanged(FALSE)
  ELSE LET key1 == deriveKeyHex(password, DefaultSalt)
           cur1 == setEncryptionKey(encryptionKey, key1)
           ok1  == key1 # NoKey /\ IsObject(decryptData(file, cur1))
           key2 == deriveKeyHex(password, "")
           cur2 == IF ok1 THEN cur1 ELSE setEncryptionKey(cur1, key2)
           ok2  == ~ok1 /\ key2 # NoKey /\ IsObject(decryptData(file, cur2))
           key3 == RawKey(password)
           cur3 == IF ok1 \/ ok2 THEN cur2 ELSE setEncryptionKey(cur2, key3)
           ok3  == ~ok1 /\ ~ok2 /\ IsObject(decryptData(file, cur3))
           key4 == Sha256PasswordKey(password)
           cur4 == IF ok1 \/ ok2 \/ ok3 THEN cur3 ELSE key4
           ok4  == ~ok1 /\ ~ok2 /\ ~ok3 /\ IsObject(decryptData(file, cur4))
           usedKey == IF ok1 THEN key1 ELSE IF ok2 THEN key2
                      ELSE IF ok3 THEN key3 ELSE key4
       IN  IF ~(ok1 \/ ok2 \/ ok3 \/ ok4)
           THEN [Unchanged(FALSE) EXCEPT !.key = cur4]
           ELSE Installed(cur4, IF usedKey = NoKey THEN sessionKey ELSE usedKey,
                          file, decryptData(file, cur4).doc)

importDatabaseWithPasswordHashLast(file, password) ==
  /\ UNCHANGED dexieVars
  /\ LET r == ImportHashLast(file, password)
     IN  /\ encryptionKey' = r.key
         /\ sessionKey' = r.skey
         /\ vaultFile' = r.vf
         /\ Finish(0, r.vd, r.replaced, r.key, r.skey, isAuthenticated, r.vf)
         /\ last' = Call("importDatabaseWithPassword", r.ok, password, file, "", 0, 0)
         /\ UNCHANGED <<localAuth, isAuthenticated, pendingChanges, disk, exporting>>

\* Vaults under each key that can be made of the password <<1>> or <<2>>
\* by one of the derivations of any build.
DecoderFiles ==
  {Envelope(k, LegacyDoc) :
     k \in UNION {{deriveKeyFromPassword(p, DefaultSalt), deriveKeyHex(p, DefaultSalt),
                   deriveKeyHex(p, ""), RawKey(p), Sha256PasswordKey(p)} :
                  p \in {<<1>>, <<2>>}}}

NextHashLast ==
  \/ \E f \in DecoderFiles, p \in {<< >>, <<1>>, <<2>>} :
       importDatabaseWithPasswordHashLast(f, p)
  \/ logout
  \/ FreshSession

SpecHashLast == Init /\ [][NextHashLast]_vars

\* Uploads that save while an export is in its wait.
NextOverlap ==
  \/ createUser(StorePassword, "s1", FALSE)
  \/ \E m \in Modules, i \in Ids : uploadFiles(m, i)
  \/ exportDatabaseBegin
  \/ exportDatabaseEnd
  \/ FreshSession

SpecOverlap == Init /\ [][NextOverlap]_vars

\* changeEncryptionKey(newKey) of the transitional revision, newKey being
\* the key of password: saveDatabase() encrypts the tables under the current
\* key, encryptionKey = newKey, and loadDatabase(encryptedData) decrypts
\* that text under the new key; on success it writes the same rows back
changeEncryptionKey(password) ==
  /\ LET newKey == deriveKeyDexie(password)
     IN  IF ~dbInitialized \/ encryptionKey = NoKey \/ newKey = NoKey
         THEN /\ last' = Call("changeEncryptionKey", FALSE, password, NoFile, "", 0, 0)
              /\ UNCHANGED encryptionKey
         ELSE /\ encryptionKey' = newKey
              /\ last' = Call("changeEncryptionKey",
                              ~decryptData(EncryptedRecord(encryptionKey, EmptyObj),
                                           newKey).null,
                              password, NoFile, "", 0, 0)
  /\ DexieUnchanged
  /\ UNCHANGED <<dbInitialized, idbData, localVaultData, disk>>

\* The IndexedDB build with key changes.
NextRekey ==
  \/ initializeDatabase
  \/ \E p \in {<<1>>, <<2>>} : setEncryptionKeyDexie(p)
  \/ \E d \in DexieDocs : saveToSecureStorageDexie(d)
  \/ \E p \in {<< >>, <<1>>, <<2>>} : changeEncryptionKey(p)
  \/ FreshSession

SpecRekey == Init /\ [][NextRekey]_vars

\* --------------------------------------------- calls of the storage API
\* saveToSecureStorage(data) called by any module.  encryptFails:
\* encryptData returns null, the function throws into its catch and
\* returns false before vaultData is assigned.
saveToSecureStorageCall(data, encryptFails) ==
  /\ LET saved == IF encryptFails /\ encryptionKey # NoKey
                  THEN [ok |-> FALSE, vault |-> vaultData, file |-> NoFile]
                  ELSE saveToSecureStorage(vaultData, encryptionKey, data)
     IN  /\ vaultData' = saved.vault
         /\ cls' = IF saved.ok THEN Detach(cls) ELSE cls
         /\ last' = Call("saveToSecureStorage", saved.ok, << >>, NoFile, "", 0, 0)
  /\ UNCHANGED <<localAuth, sessionKey, encryptionKey, vaultFile, isAuthenticated, db,
                 pendingChanges, initialized, disk, exporting, dexieVars, editor>>

\* loadFromSecureStorage() called by any module: null without a key, the
\* current vaultData without a vault file, else the decrypted file, which
\* becomes vaultData
loadFromSecureStorageCall ==
  /\ LET loaded == IF encryptionKey = NoKey THEN NullDoc
                   ELSE IF vaultFile = NoFile THEN vaultData
                   ELSE LoadedFile(vaultFile, encryptionKey)
         assigned == encryptionKey # NoKey /\ vaultFile # NoFile /\ ~loaded.null
     IN  /\ vaultData' = IF assigned THEN loaded ELSE vaultData
         /\ cls' = IF assigned THEN Detach(cls) ELSE cls
         /\ last' = Call("loadFromSecureStorage", ~loaded.null, << >>, NoFile, "", 0, 0)
  /\ UNCHANGED <<localAuth, sessionKey, encryptionKey, vaultFile, isAuthenticated, db,
                 pendingChanges, initialized, disk, exporting, dexieVars, editor>>

\* The storage API called with and without a key.
NextNoKey ==
  \/ createUser(StorePassword, "s1", FALSE)
  \/ uploadFiles("files", 1)
  \/ \E d \in DexieDocs, f \in BOOLEAN : saveToSecureStorageCall(d, f)
  \/ loadFromSecureStorageCall
  \/ exportDatabase(FALSE)
  \/ login(StorePassword, disk, FALSE)
  \/ FreshSession

SpecNoKey == Init /\ [][NextNoKey]_vars

\* ------------------------------------------------ handleDatabaseImport
\* auth.js handleDatabaseImport(file, password): createUser(password), which
\* stores a credential record with a new salt and the session key, sets the
\* encryption key, saves an empty vault and dispatches auth:login, and then
\* importDatabaseWithPassword(file, password), whose result is returned.
handleDatabaseImport(file, password, salt) ==
  /\ UNCHANGED dexieVars
  /\ IF file = NoFile \/ password = << >>
     THEN /\ last' = Call("handleDatabaseImport", FALSE, password, file, "", 0, 0)
          /\ UNCHANGED <<localAuth, sessionKey, encryptionKey, vaultData, vaultFile,
                         db, cls, initialized, editor>>
     ELSE LET derivedKey == deriveKeyFromPassword(password, salt)
              authData   == AuthRecord(salt, SHA256(derivedKey))
              key        == setEncryptionKey(encryptionKey, derivedKey)
              emptyVault == [null |-> FALSE, docs |-> EmptyColl, files |-> EmptyColl,
                             photos |-> EmptyColl, auth |-> authData, meta |-> FALSE]
              saved      == saveToSecureStorage(vaultData, key, emptyVault)
              decryptedData == IF file.kind = "vault" THEN decryptData(file, key)
                               ELSE NullResult
              imported   == ~decryptedData.null /\ ~decryptedData.prim
              loaded     == LoadedFile(vaultFile, key)
              started    == IF vaultFile # NoFile /\ loaded.null
                            THEN [db |-> [m \in Modules |-> FreshDb(m)],
                                  cls |-> [m \in Modules |-> m], docs |-> EmptyColl]
                            ELSE IF vaultFile # NoFile
                            THEN [db |-> [m \in Modules |-> loaded],
                                  cls |-> [m \in Modules |->
                                             IF m = "photos" THEN "vault" ELSE m],
                                  docs |-> loaded.docs]
                            ELSE [db |-> [m \in Modules |-> AdoptedVault(saved.vault)],
                                  cls |-> [m \in Modules |-> "vault"],
                                  docs |-> AdoptedVault(saved.vault).docs]
          IN  /\ localAuth' = authData
              /\ sessionKey' = derivedKey
              /\ encryptionKey' = key
              /\ IF imported
                 THEN /\ vaultFile' = file
                      /\ vaultData' = EnsureSections(decryptedData.doc)
                      /\ initialized' = [m \in Modules |-> TRUE]
                      /\ db' = started.db
                      /\ cls' = Detach(started.cls)
                      /\ editor' = EditorStarted(started.docs)
                 ELSE /\ vaultFile' = IF decryptedData.prim /\ ~decryptedData.null
                                      THEN file ELSE vaultFile
                      /\ Finish(1, saved.vault, saved.ok, key, derivedKey,
                                isAuthenticated, vaultFile)
              /\ last' = Call("handleDatabaseImport", imported, password, file, "", 0, 1)
  /\ UNCHANGED <<isAuthenticated, pendingChanges, disk, exporting>>

\* Imports through the session controller, into a new or a running session.
NextHandleImport ==
  \/ createUser(StorePassword, "s1", FALSE)
  \/ uploadFiles("files", 1)
  \/ exportDatabase(FALSE)
  \/ \E f \in ChosenFiles, p \in Passwords : handleDatabaseImport(f, p, "s2")
  \/ FreshSession

SpecHandleImport == Init /\ [][NextHandleImport]_vars

\* ------------------------------------------------------------------ claims
\* C1: once deleteItem(A) has succeeded, the vault document no longer holds
\* A in the collection it was deleted from.
C1_DeletedIdAbsent ==
  (last.op = "deleteFile" /\ last.ok)
    => last.id \notin Keys(OwnSection(last.m, vaultData))

\* C2: an envelope that holds document d encrypted under the key derived from
\* p, imported with p, is accepted, and the docs, files and photos of the
\* vault document are then those of d.
C2_RoundTrip ==
  (/\ last.op = "importDatabaseWithPassword"
   /\ last.file.kind = "vault" /\ last.file.intact /\ ~last.file.prim
   /\ last.pw # << >>
   /\ last.file.key = deriveKeyFromPassword(last.pw, DefaultSalt))
    => /\ last.ok
       /\ vaultData.docs = last.file.doc.docs
       /\ vaultData.files = last.file.doc.files
       /\ vaultData.photos = last.file.doc.photos

\* a session whose modules never started imported, with the password of the
\* vault, an exported file that holds an uploaded file
C2_Witness ==
  /\ last.op = "importDatabaseWithPassword" /\ last.ok
  /\ last.file.key = deriveKeyFromPassword(last.pw, DefaultSalt)
  /\ Keys(last.file.doc.files) # {}
  /\ vaultData.files = last.file.doc.files
  /\ \A m \in Modules : ~initialized[m]

C7_FailedImportKeepsSession ==
  [][(last'.op = "importDatabaseWithPassword" /\ ~last'.ok)
       => (encryptionKey' = encryptionKey /\ sessionKey' = sessionKey)]_vars

LoggedOut == sessionKey = NoKey /\ encryptionKey = NoKey /\ ~isAuthenticated

\* C4 as stated: with the credential record of a vault created with pw1,
\* authenticateUser(pw2) for another pw2, called in a logged-out session,
\* returns false, dispatches no login event and leaves the session logged out.
C4_AnyOtherPasswordRefused ==
  [][(/\ last'.op = "authenticateUser"
      /\ LoggedOut
      /\ \E pw1 \in Passwords :
           /\ pw1 # << >> /\ pw1 # last'.pw
           /\ localAuth = AuthRecord(localAuth.salt,
                                     SHA256(deriveKeyFromPassword(pw1, localAuth.salt))))
       => (~last'.ok /\ last'.logins = 0 /\ LoggedOut')]_vars

\* C4, amended: the same for pw1 and pw2 that differ after trimming.
C4_WrongPasswordRefused ==
  [][(/\ last'.op = "authenticateUser"
      /\ LoggedOut
      /\ \E pw1 \in Passwords :
           /\ pw1 # << >> /\ Trim(pw1) # Trim(last'.pw)
           /\ localAuth = AuthRecord(localAuth.salt,
                                     SHA256(deriveKeyFromPassword(pw1, localAuth.salt))))
       => (~last'.ok /\ last'.logins = 0 /\ LoggedOut')]_vars

\* password 2 was refused in a logged-out session of the vault of password 1
C4_Witness ==
  /\ last.op = "authenticateUser" /\ ~last.ok /\ last.pw = <<2>>
  /\ localAuth.present
  /\ localAuth.keyHash = SHA256(deriveKeyFromPassword(<<1>>, localAuth.salt))
  /\ LoggedOut

\* C5: after logout() there is no encryption key, no stored sessionKey and no
\* vault document in memory.
C5_LogoutDiscardsSession ==
  last.op = "logout" => (encryptionKey = NoKey /\ sessionKey = NoKey /\ vaultData.null)

\* C8: after changePassword returned true, the exported vault that the
\* current password opened is opened by the key of the new password.
C8_NewPasswordOpensVault ==
  [][(/\ last'.op = "changePassword" /\ last'.ok
      /\ ~decryptData(disk, deriveKeyFromPassword(last'.pw, DefaultSalt)).null)
       => ~decryptData(disk', encryptionKey').null]_vars

\* C9: after changePassword returned true and changed the key, the old
\* password fails validatePassword and its key no longer decrypts the
\* exported vault.
C9_OldPasswordLocked ==
  [][(/\ last'.op = "changePassword" /\ last'.ok
      /\ encryptionKey' # deriveKeyFromPassword(last'.pw, DefaultSalt))
       => /\ ~validatePassword(last'.pw, localAuth')
          /\ decryptData(disk', deriveKeyFromPassword(last'.pw, DefaultSalt)).null]_vars

\* C10: a changePassword that returns false leaves the credential record,
\* the stored sessionKey, the encryption key and the exported vault as they
\* were.
C10_FailedChangeKeepsState ==
  [][(last'.op = "changePassword" /\ ~last'.ok)
       => /\ localAuth' = localAuth
          /\ sessionKey' = sessionKey
          /\ encryptionKey' = encryptionKey
          /\ disk' = disk]_vars

\* C11: when exportDatabase succeeded in a session whose stored sessionKey is
\* the key of password p, the file it wrote decrypts under the key derived
\* from p to a document whose docs, files and photos are those of vaultData.
C11_ExportOpensWithSessionPassword ==
  (last.op = "exportDatabase" /\ last.ok /\ sessionKey # NoKey)
    => \A p \in Passwords :
         (p # << >> /\ sessionKey = deriveKeyFromPassword(p, DefaultSalt))
           => LET r == decryptData(disk, deriveKeyFromPassword(p, DefaultSalt))
              IN  /\ ~r.null /\ ~r.prim
                  /\ EnsureSections(r.doc).docs = vaultData.docs
                  /\ EnsureSections(r.doc).files = vaultData.files
                  /\ EnsureSections(r.doc).photos = vaultData.photos

\* C12: after a successful import or login (which decode a vault file) and
\* after a successful createUser or signup, the vault document has the docs,
\* files and photos keys.
C12_SectionsPresent ==
  (last.op \in {"importDatabaseWithPassword", "login", "createUser", "signup"}
   /\ last.ok)
    => /\ ~vaultData.null
       /\ vaultData.docs.has /\ vaultData.files.has /\ vaultData.photos.has

\* a login decoded a file whose document lacks the files and photos keys
C12_Witness ==
  /\ last.op = "login" /\ last.ok
  /\ ~last.file.doc.files.has /\ ~last.file.doc.photos.has
  /\ vaultData.files.has /\ vaultData.photos.has

\* C13: after a successful createUser or signup the vault document has no
\* entry in docs, files or photos.
C13_CreatedVaultEmpty ==
  (last.op \in {"createUser", "signup"} /\ last.ok)
    => /\ Keys(vaultData.docs) = {}
       /\ Keys(vaultData.files) = {}
       /\ Keys(vaultData.photos) = {}

\* C14: the credential record in localStorage holds, beside the random
\* salt, a value that is neither the session key, nor the encryption key,
\* nor a key derived from a password, nor a password used as key.
C14_NoKeyInLocalStorage ==
  localAuth.present =>
    /\ localAuth.salt \in Salts
    /\ localAuth.keyHash \notin {sessionKey, encryptionKey}
    /\ \A p \in AnyPassword :
         localAuth.keyHash \notin
           {deriveKeyFromPassword(p, DefaultSalt), LegacyHexKey(p), RawKey(p)}

\* the credential record was rewritten by changePassword while the session
\* holds the new key
C14_Witness ==
  /\ last.op = "changePassword" /\ last.ok
  /\ localAuth.present
  /\ sessionKey # NoKey /\ encryptionKey = sessionKey
  /\ localAuth.keyHash = SHA256(sessionKey)

\* C15: the downloaded export file and the record in IndexedDB hold the
\* vault document as ciphertext under a key, and localStorage holds no vault
\* document.
C15_OnlyCiphertextStored ==
  /\ disk # NoFile => (disk.kind \in {"vault", "encrypted"} /\ disk.key # NoKey)
  /\ idbData # NoFile => (idbData.kind = "encrypted" /\ idbData.key # NoKey)
  /\ localVaultData.null

\* C16: what importDatabaseWithPassword returns for a file that is not JSON
\* or not a 'secure-vault' envelope differs from what it returns for the
\* exported vault opened with a wrong password or with its data corrupted.
C16_InvalidFormatDistinct ==
  \A f \in {NotJsonFile, BadEnvelopeFile}, g \in {disk, Corrupted(disk)} :
    \A p, q \in Passwords :
      (/\ p # << >> /\ q # << >>
       /\ g.kind = "vault"
       /\ ~ImportSingleKey(g, q).ok)
        => ImportSingleKey(f, p).ok # ImportSingleKey(g, q).ok

\* C17: when exportDatabase has returned true, the downloaded file is the
\* envelope of the vault document under the encryption key.
C17_SuccessMeansWritten ==
  (last.op = "exportDatabase" /\ last.ok)
    => disk = Envelope(encryptionKey, vaultData)

\* C18: a step of logout or logoutUser that takes the session from logged
\* in to logged out dispatches auth:logout, and a successful createUser,
\* signup or authenticateUser dispatches auth:login.
C18_SessionEventsEmitted ==
  [][/\ (/\ last'.op \in {"logout", "logoutUser"}
         /\ checkAuthentication(isAuthenticated, sessionKey)
         /\ ~checkAuthentication(isAuthenticated', sessionKey'))
        => last'.logouts = 1
     /\ (last'.op \in {"createUser", "signup", "authenticateUser"} /\ last'.ok)
        => last'.logins = 1]_vars

\* the ids a partial update touches
Touched(d) == Keys(d.docs) \cup Keys(d.files) \cup Keys(d.photos)

SameSections(d, e) == d.docs = e.docs /\ d.files = e.files /\ d.photos = e.photos

\* saveToSecureStorage(first) followed by saveToSecureStorage(second)
SavedInOrder(first, second) ==
  saveToSecureStorage(saveToSecureStorage(vaultData, encryptionKey, first).vault,
                      encryptionKey, second).vault

C20_EmptyMergeNormalises ==
  LET base == IF vaultData.null THEN EmptyObj ELSE vaultData
  IN  SameSections(saveToSecureStorage(vaultData, encryptionKey, EmptyObj).vault,
                   EnsureSections(base))

\* collection c of the document merged from collection b of the base and
\* collection p of the partial update, as the claim describes it
MergedAsDescribed(c, b, p) ==
  IF p.has
  THEN /\ c.has
       /\ \A i \in Ids : c.at[i] = IF p.at[i] # 0 THEN p.at[i] ELSE b.at[i]
  ELSE c = b

C22_SavedDocumentHasSections ==
  (last.op = "saveToSecureStorage" /\ last.ok)
    => /\ ~vaultData.null
       /\ vaultData.docs.has /\ vaultData.files.has /\ vaultData.photos.has

\* C23: at most one saveToSecureStorage call is between its start and the
\* write of its record.
C23_OneSaveInFlight == Len(savesInFlight) <= 1

\* C24: when exportDatabase runs while the editor holds unsaved text, the
\* exported document holds that text, in the current document if there is
\* one, else in some document.
C24_ExportHoldsDirtyText ==
  [][(/\ last'.op = "exportDatabase" /\ last'.ok
      /\ editor.initialized /\ editor.isEditorDirty)
       => \E i \in Ids :
            /\ disk'.doc.docs.at[i] = editor.value
            /\ editor.currentFile # 0 => i = editor.currentFile]_vars

\* C25: a logout has run the 'vault:autosave' listeners first: the vault
\* document and the editor are as the listeners leave them, so unsaved text
\* of the current document is in the vault document.
C25_LogoutFlushesFirst ==
  [][last'.op \in {"logout", "logoutUser"}
       => /\ vaultData' = DispatchAutosave.vd
          /\ editor' = DispatchAutosave.editor
          /\ pendingChanges' = DispatchAutosave.pending]_vars

\* C26: after importDatabaseWithPassword returns true the vault file is the
\* imported file, and after it returns false the vault file is the one that
\* was active before the call.
C26_VaultFileFollowsImport ==
  [][last'.op = "importDatabaseWithPassword"
       => vaultFile' = IF last'.ok THEN last'.file ELSE vaultFile]_vars

\* C27: no save adds a top-level key other than docs, files, photos and
\* meta to the vault document: the auth key appears in it only when an
\* import or a login installs a decoded document that has it.
C27_NoForeignKeyAdded ==
  [][(~vaultData.auth.present /\ vaultData'.auth.present)
       => last'.op \in {"importDatabaseWithPassword", "login"}]_vars

\* C28: when a handler dispatches auth:login and the load of the active
\* vault file fails to decrypt under the encryption key, no feature module
\* is left running on a new empty collection.
C28_FailedLoadNotEmptyVault ==
  [][(/\ last'.logins > 0
      /\ Starts(last'.logins, encryptionKey', sessionKey', isAuthenticated')
      /\ vaultFile' # NoFile
      /\ LoadedFile(vaultFile', encryptionKey').null)
       => \A m \in Modules : ~(initialized'[m] /\ db'[m] = FreshDb(m))]_vars

\* the modules whose save returned success in the call that last records
SavedModules(l) ==
  IF ~l.ok THEN {}
  ELSE IF l.op \in {"uploadFiles", "deleteFile"} THEN {l.m}
  ELSE IF l.op = "saveCurrentFile" THEN {"docs"}
  ELSE IF l.op = "exportDatabase" THEN {"docs", "files", "photos"}
  ELSE {}

\* C29 as stated: within a page session a pending marker (pendingChanges of
\* files and photos, isEditorDirty of the editor) goes from set to clear only
\* in a call whose save for that module returned success; a failed autosave
\* save leaves it set.
C29_MarkerClearedOnlyBySave ==
  [][last'.op # "FreshSession" =>
       /\ \A m \in Modules :
            (pendingChanges[m] /\ ~pendingChanges'[m]) => m \in SavedModules(last')
       /\ (editor.isEditorDirty /\ ~editor'.isEditorDirty)
            => "docs" \in SavedModules(last')]_vars

\* C29 amended: the same, except that the editor also clears isEditorDirty
\* when the user creates or opens a document, or deletes the open one, and
\* so discards the text.
C29_MarkerClearedBySaveOrDiscard ==
  [][last'.op # "FreshSession" =>
       /\ \A m \in Modules :
            (pendingChanges[m] /\ ~pendingChanges'[m]) => m \in SavedModules(last')
       /\ (editor.isEditorDirty /\ ~editor'.isEditorDirty)
            => \/ "docs" \in SavedModules(last')
               \/ last'.op \in {"createNewDocument", "selectFile", "deleteDocument"}]_vars

\* an autosave broadcast whose saves failed has left the markers set
C29_Witness ==
  /\ last.op = "exportDatabase" /\ ~last.ok /\ encryptionKey # NoKey
  /\ pendingChanges["files"]
  /\ editor.isEditorDirty /\ editor.currentFile # 0

\* the first candidate of keys under which file decrypts to an object, 0
\* if there is none
FirstAccepting(keys, file) ==
  LET accepting == {i \in 1..Len(keys) :
                      keys[i] # NoKey /\ IsObject(decryptData(file, keys[i]))}
  IN  IF accepting = {} THEN 0
      ELSE CHOOSE i \in accepting : \A j \in accepting : i <= j

\* C30: an import of a vault envelope succeeds exactly when one of the
\* candidates (PBKDF2 with the default salt, PBKDF2 with the empty salt,
\* legacy hex PBKDF2, raw password) decrypts it to an object, and the first
\* such candidate is the key it accepts and stores as the session key.
C30_FirstCandidateAccepted ==
  (last.op = "importDatabaseWithPassword" /\ last.file.kind = "vault") =>
     LET keys == CandidateKeys(last.pw)
         i    == FirstAccepting(keys, last.file)
     IN  /\ last.ok <=> i # 0
         /\ last.ok => sessionKey = keys[i]

\* C31: the keyHash of the credential record depends on its salt: the
\* record createUser has just stored differs in keyHash from the record the
\* same password gives with any other salt.
C31_SaltIsKdfInput ==
  (last.op = "createUser" /\ last.ok /\ localAuth.present) =>
     \A s \in Salts \ {localAuth.salt} :
        AuthRecord(s, SHA256(deriveKeyFromPassword(last.pw, s))).keyHash
          # localAuth.keyHash

\* C32: whenever a session key is stored and an encryption key is set, the
\* two are the same key.
C32_SessionKeyIsEncryptionKey ==
  (sessionKey # NoKey /\ encryptionKey # NoKey) => sessionKey = encryptionKey

\* C33: while a session is logged in, the stored credential record exists
\* and its keyHash is the hash of the key the session encrypts with.
C33_RecordMatchesSessionKey ==
  (checkAuthentication(isAuthenticated, sessionKey) /\ encryptionKey # NoKey) =>
     /\ localAuth.present
     /\ localAuth.keyHash = SHA256(encryptionKey)

\* C34: after logout(), checkAuthentication() returns false.
C34_LogoutEndsAuthentication ==
  last.op = "logout" => ~checkAuthentication(isAuthenticated, sessionKey)

C36_FailedRekeyKeepsKey ==
  [][(last'.op = "changeEncryptionKey" /\ ~last'.ok)
       => encryptionKey' = encryptionKey]_vars

\* C37: a save, load or export called while no encryption key is set
\* returns a failure value, and a saveToSecureStorage call that returns
\* false leaves the vault document, the active file, the download and the
\* modules' markers as they were.
C37_FailureLeavesState ==
  [][/\ (/\ encryptionKey = NoKey
         /\ last'.op \in {"saveToSecureStorage", "loadFromSecureStorage",
                           "exportDatabase"})
          => /\ ~last'.ok
             /\ UNCHANGED <<vaultData, vaultFile, disk, pendingChanges, editor>>
     /\ (last'.op = "saveToSecureStorage" /\ ~last'.ok)
          => UNCHANGED <<vaultData, vaultFile, disk, pendingChanges, editor>>]_vars

\* a save has failed for want of a key
C37_Witness ==
  /\ encryptionKey = NoKey
  /\ last.op = "saveToSecureStorage" /\ ~last.ok

\* C38: auth:login is dispatched only on a transition into the logged-in
\* state: changePassword called in a logged-in session, which stays logged
\* in, dispatches none.
C38_LoginEventOnlyOnEntry ==
  [][(/\ last'.op = "changePassword"
      /\ checkAuthentication(isAuthenticated, sessionKey)
      /\ checkAuthentication(isAuthenticated', sessionKey'))
       => last'.logins = 0]_vars

\* C39: a handleDatabaseImport that returns false leaves the stored
\* credential record, the session key and the vault document as they were.
C39_FailedImportKeepsRecord ==
  [][(last'.op = "handleDatabaseImport" /\ ~last'.ok)
       => UNCHANGED <<localAuth, sessionKey, vaultData>>]_vars

TypeOK ==
  /\ localAuth.present \in BOOLEAN
  /\ \A m \in Modules : cls[m] \in {"vault"} \cup Modules
  /\ \A m \in Modules : cls[m] = "vault" => db[m] = vaultData
  /\ \A m, n \in Modules : cls[m] = cls[n] => db[m] = db[n]

====
